---- MODULE Spec2Model ----
(***************************************************************************)
(* A model of the bbq10kbd driver: the blocking adapter Bbq10Kbd           *)
(* (src/src/lib.rs), the asynchronous adapter AsyncBbq10Kbd                *)
(* (src/src/async.rs) and the three decoders Version::from_byte,           *)
(* KeyRaw::from_bytes and KeyStatus::from_byte.                            *)
(*                                                                         *)
(* The adapters hold no state of their own beyond the bus handle.  The     *)
(* state of the model is therefore the peripheral on the other side of    *)
(* the bus, the bus events of the most recent call and the value that     *)
(* call returned.  Both adapter methods take `&mut self`, so calls on one  *)
(* adapter never overlap: every call is one atomic action, and the bus    *)
(* trace of a run is the concatenation of the per-call event lists.       *)
(***************************************************************************)
EXTENDS Integers, Sequences, FiniteSets, TLC

VARIABLES
    periph,   \* the peripheral behind the bus: its registers and register pointer
    bus,      \* the bus events issued by the most recent call, in order
    result,   \* what the most recent call returned
    call,     \* the most recent call: operation, adapter, argument
    lastSet,  \* level of the last successful set_backlight not followed by a failure
    twin      \* the same run replayed through the other adapter (periph, bus, result)

vars == <<periph, bus, result, call, lastSet, twin>>

---------------------------------------------------------------------------
(* Bounds and input domains *)

NumTransportErrors == 2

Byte == 0..255

\* Error codes the transport may raise; 0 stands for success.
TransportErrors == 1..NumTransportErrors
Faults == [w : {0} \cup TransportErrors, r : {0} \cup TransportErrors]
NoFaults == {[w |-> 0, r |-> 0]}

\* a transport failure of a call that only writes is a failure of its write
WriteFaults == [w : {0} \cup TransportErrors, r : {0}]

SampleLevels == {5, 128, 255}
SampleVersions == {35}
SampleStatus == {5, 37, 96}
SampleFifo == {<<0, 0>>, <<2, 65>>, <<3, 255>>}

None == <<"None">>

---------------------------------------------------------------------------
(* u8 bit operations *)

RECURSIVE BitAnd(_, _)
BitAnd(a, b) ==
    IF a = 0 \/ b = 0 THEN 0
    ELSE (a % 2) * (b % 2) + 2 * BitAnd(a \div 2, b \div 2)

RECURSIVE BitOr(_, _)
BitOr(a, b) ==
    IF a = 0 THEN b
    ELSE IF b = 0 THEN a
    ELSE (IF (a % 2) + (b % 2) > 0 THEN 1 ELSE 0) + 2 * BitOr(a \div 2, b \div 2)

Shr(a, n) == a \div (2 ^ n)

---------------------------------------------------------------------------
(* Program constants *)

KBD_ADDR == 31

WRITE == 128
VERSION == 1
KEY_STATUS == 4
BACKLIGHT == 5
RESET == 8
FIFO == 9

---------------------------------------------------------------------------
(* Result values *)

Ok(v) == [tag |-> "Ok", val |-> v]
Err(e) == [tag |-> "Err", err |-> e]

\* Error::I2c, the only variant of the crate's Error
Error_I2c == <<"I2c">>

\* an error value of the transport's own error type I2C::Error
TransportError(code) == <<"transport", code>>

---------------------------------------------------------------------------
(* Decoders *)

\* mutant: the high nibble is masked but not shifted down
Version_from_byte_unshifted(byte) ==
    [major |-> BitAnd(byte, 240),
     minor |-> BitAnd(byte, 15)]

Version_from_byte(byte) ==
    [major |-> Shr(BitAnd(byte, 240), 4),
     minor |-> BitAnd(byte, 15)]

\* mutant: the event tags counted from zero
KeyRaw_from_bytes_zero_based(buf) ==
    CASE buf[1] = 0 -> <<"Pressed", buf[2]>>
      [] buf[1] = 1 -> <<"Held", buf[2]>>
      [] buf[1] = 2 -> <<"Released", buf[2]>>
      [] OTHER -> <<"Invalid">>

KeyRaw_from_bytes(buf) ==
    CASE buf[1] = 1 -> <<"Pressed", buf[2]>>
      [] buf[1] = 2 -> <<"Held", buf[2]>>
      [] buf[1] = 3 -> <<"Released", buf[2]>>
      [] OTHER -> <<"Invalid">>

\* mutant: the (true, 0) arm is missing, so caps-lock with a zero count is
\* reported as On / Known(0)
KeyStatus_from_byte_no_quirk(byte0) ==
    LET num_lock == IF BitAnd(byte0, 64) # 0 THEN "On" ELSE "Off"
        byte == BitAnd(byte0, 191)
        capslock == BitAnd(byte, 32) # 0
        fifo_ct == BitAnd(byte, 31)
    IN  [caps_lock |-> IF capslock THEN "On" ELSE "Off", num_lock |-> num_lock,
         fifo_count |-> <<"Known", fifo_ct>>]

\* mutant: bit 6 is not cleared and the count mask reaches into it
KeyStatus_from_byte_wide_mask(byte0) ==
    LET num_lock == IF BitAnd(byte0, 64) # 0 THEN "On" ELSE "Off"
        byte == byte0
        capslock == BitAnd(byte, 32) # 0
        fifo_ct == BitAnd(byte, 95)
    IN  CASE capslock /\ fifo_ct = 0 ->
               [caps_lock |-> "Unknown", num_lock |-> num_lock,
                fifo_count |-> <<"EmptyOr32">>]
          [] capslock /\ fifo_ct # 0 ->
               [caps_lock |-> "On", num_lock |-> num_lock,
                fifo_count |-> <<"Known", fifo_ct>>]
          [] OTHER ->
               [caps_lock |-> "Off", num_lock |-> num_lock,
                fifo_count |-> <<"Known", fifo_ct>>]

KeyStatus_from_byte(byte0) ==
    LET num_lock == IF BitAnd(byte0, 64) # 0 THEN "On" ELSE "Off"
        byte == BitAnd(byte0, 191)
        capslock == BitAnd(byte, 32) # 0
        fifo_ct == BitAnd(byte, 31)
    IN  CASE capslock /\ fifo_ct = 0 ->
               [caps_lock |-> "Unknown", num_lock |-> num_lock,
                fifo_count |-> <<"EmptyOr32">>]
          [] capslock /\ fifo_ct # 0 ->
               [caps_lock |-> "On", num_lock |-> num_lock,
                fifo_count |-> <<"Known", fifo_ct>>]
          [] OTHER ->
               [caps_lock |-> "Off", num_lock |-> num_lock,
                fifo_count |-> <<"Known", fifo_ct>>]

---------------------------------------------------------------------------
(* The peripheral: a stub that keeps the level of every [0x85, level] write, *)
(* takes a write that starts with a register id below 0x80 as the register  *)
(* select, and answers a read with the selected register.                   *)

PeriphWrite(p, addr, bytes) ==
    IF addr # 31 \/ Len(bytes) = 0 THEN p
    ELSE IF bytes[1] = 133 /\ Len(bytes) >= 2 THEN [p EXCEPT !.backlight = bytes[2]]
    ELSE IF bytes[1] < 128 THEN [p EXCEPT !.sel = bytes[1]]
    ELSE p

PeriphRegister(p) ==
    CASE p.sel = 1 -> <<p.version>>
      [] p.sel = 4 -> <<p.status>>
      [] p.sel = 5 -> <<p.backlight>>
      [] p.sel = 9 -> p.fifo
      [] OTHER -> <<>>

PeriphRead(p, addr, n) ==
    LET r == IF addr = 31 THEN PeriphRegister(p) ELSE <<>>
    IN  [i \in 1..n |-> IF i <= Len(r) THEN r[i] ELSE 0]

---------------------------------------------------------------------------
(* The transport: the I2C implementation the adapters are generic over.     *)
(* err = 0 is success, any other value the transport's error.  A bus event  *)
(* records the transport method used (via), the direction, the address, the *)
(* bytes written and the number of bytes written or requested.              *)

WriteEvent(via, addr, bytes, err) ==
    [via |-> via, kind |-> "write", addr |-> addr, data |-> bytes,
     len |-> Len(bytes), err |-> err]

ReadEvent(via, addr, n, err) ==
    [via |-> via, kind |-> "read", addr |-> addr, data |-> <<>>,
     len |-> n, err |-> err]

\* Write::write(addr, bytes)
I2cWrite(p, via, addr, bytes, err) ==
    [periph |-> IF err = 0 THEN PeriphWrite(p, addr, bytes) ELSE p,
     bus |-> <<WriteEvent(via, addr, bytes, err)>>,
     err |-> err]

\* Read::read(addr, buf): fills buf on success, leaves it alone on failure
I2cRead(p, via, addr, buf, err) ==
    [periph |-> p,
     bus |-> <<ReadEvent(via, addr, Len(buf), err)>>,
     err |-> err,
     buf |-> IF err = 0 THEN PeriphRead(p, addr, Len(buf)) ELSE buf]

\* I2c::transaction(addr, [Write(bytes), Read(buf)]): the operations in order,
\* stopping at the first one that fails
I2cTransaction(p, addr, bytes, buf, fault) ==
    LET w == I2cWrite(p, "transaction", addr, bytes, fault.w)
        r == I2cRead(w.periph, "transaction", addr, buf, fault.r)
    IN  IF w.err # 0
        THEN [periph |-> w.periph, bus |-> w.bus, err |-> w.err, buf |-> buf]
        ELSE [periph |-> r.periph, bus |-> w.bus \o r.bus, err |-> r.err, buf |-> r.buf]

Outcome(p, b, res) == [periph |-> p, bus |-> b, result |-> res]

---------------------------------------------------------------------------
(* The blocking adapter, Bbq10Kbd *)

\* mutant: the result of the register-select write is dropped, not propagated
Bbq10Kbd_get_version_unchecked_write(p, fault) ==
    LET buf0 == <<VERSION>>
        w == I2cWrite(p, "write", KBD_ADDR, buf0, fault.w)
        buf1 == <<0>>
        r == I2cRead(w.periph, "read", KBD_ADDR, buf1, fault.r)
    IN  IF r.err # 0 THEN Outcome(r.periph, w.bus \o r.bus, Err(Error_I2c))
        ELSE Outcome(r.periph, w.bus \o r.bus, Ok(Version_from_byte(r.buf[1])))

Bbq10Kbd_get_version(p, fault) ==
    LET buf0 == <<VERSION>>
        w == I2cWrite(p, "write", KBD_ADDR, buf0, fault.w)
        buf1 == <<0>>
        r == I2cRead(w.periph, "read", KBD_ADDR, buf1, fault.r)
    IN  IF w.err # 0 THEN Outcome(w.periph, w.bus, Err(Error_I2c))
        ELSE IF r.err # 0 THEN Outcome(r.periph, w.bus \o r.bus, Err(Error_I2c))
        ELSE Outcome(r.periph, w.bus \o r.bus, Ok(Version_from_byte(r.buf[1])))

\* mutant: the whole two-byte buffer is written, not its first byte
Bbq10Kbd_get_fifo_key_raw_whole_buf(p, fault) ==
    LET buf0 == <<FIFO, 0>>
        w == I2cWrite(p, "write", KBD_ADDR, buf0, fault.w)
        buf1 == <<0, 0>>
        r == I2cRead(w.periph, "read", KBD_ADDR, buf1, fault.r)
    IN  IF w.err # 0 THEN Outcome(w.periph, w.bus, Err(Error_I2c))
        ELSE IF r.err # 0 THEN Outcome(r.periph, w.bus \o r.bus, Err(Error_I2c))
        ELSE Outcome(r.periph, w.bus \o r.bus, Ok(KeyRaw_from_bytes(r.buf)))

Bbq10Kbd_get_fifo_key_raw(p, fault) ==
    LET buf0 == <<FIFO, 0>>
        w == I2cWrite(p, "write", KBD_ADDR, SubSeq(buf0, 1, 1), fault.w)
        buf1 == <<0, 0>>
        r == I2cRead(w.periph, "read", KBD_ADDR, buf1, fault.r)
    IN  IF w.err # 0 THEN Outcome(w.periph, w.bus, Err(Error_I2c))
        ELSE IF r.err # 0 THEN Outcome(r.periph, w.bus \o r.bus, Err(Error_I2c))
        ELSE Outcome(r.periph, w.bus \o r.bus, Ok(KeyRaw_from_bytes(r.buf)))

\* mutant: the read is issued before the register-select write
Bbq10Kbd_get_backlight_read_first(p, fault) ==
    LET buf1 == <<0>>
        r == I2cRead(p, "read", KBD_ADDR, buf1, fault.r)
        buf0 == <<BACKLIGHT>>
        w == I2cWrite(r.periph, "write", KBD_ADDR, buf0, fault.w)
    IN  IF r.err # 0 THEN Outcome(r.periph, r.bus, Err(Error_I2c))
        ELSE IF w.err # 0 THEN Outcome(w.periph, r.bus \o w.bus, Err(Error_I2c))
        ELSE Outcome(w.periph, r.bus \o w.bus, Ok(r.buf[1]))

Bbq10Kbd_get_backlight(p, fault) ==
    LET buf0 == <<BACKLIGHT>>
        w == I2cWrite(p, "write", KBD_ADDR, buf0, fault.w)
        buf1 == <<0>>
        r == I2cRead(w.periph, "read", KBD_ADDR, buf1, fault.r)
    IN  IF w.err # 0 THEN Outcome(w.periph, w.bus, Err(Error_I2c))
        ELSE IF r.err # 0 THEN Outcome(r.periph, w.bus \o r.bus, Err(Error_I2c))
        ELSE Outcome(r.periph, w.bus \o r.bus, Ok(r.buf[1]))

\* mutant: the write flag is not OR'd into the register id
Bbq10Kbd_set_backlight_no_write_flag(p, level, fault) ==
    LET buf == <<BACKLIGHT, level>>
        w == I2cWrite(p, "write", KBD_ADDR, buf, fault.w)
    IN  IF w.err # 0 THEN Outcome(w.periph, w.bus, Err(Error_I2c))
        ELSE Outcome(w.periph, w.bus, Ok(<<>>))

Bbq10Kbd_set_backlight(p, level, fault) ==
    LET buf == <<BitOr(BACKLIGHT, WRITE), level>>
        w == I2cWrite(p, "write", KBD_ADDR, buf, fault.w)
    IN  IF w.err # 0 THEN Outcome(w.periph, w.bus, Err(Error_I2c))
        ELSE Outcome(w.periph, w.bus, Ok(<<>>))

Bbq10Kbd_sw_reset(p, fault) ==
    LET buf == <<RESET>>
        w == I2cWrite(p, "write", KBD_ADDR, buf, fault.w)
    IN  IF w.err # 0 THEN Outcome(w.periph, w.bus, Err(Error_I2c))
        ELSE Outcome(w.periph, w.bus, Ok(<<>>))

\* mutant: the error of the read is handed on as the transport raised it
Bbq10Kbd_get_key_status_raw_error(p, fault) ==
    LET buf0 == <<KEY_STATUS>>
        w == I2cWrite(p, "write", KBD_ADDR, buf0, fault.w)
        buf1 == <<0>>
        r == I2cRead(w.periph, "read", KBD_ADDR, buf1, fault.r)
    IN  IF w.err # 0 THEN Outcome(w.periph, w.bus, Err(Error_I2c))
        ELSE IF r.err # 0 THEN Outcome(r.periph, w.bus \o r.bus, Err(TransportError(r.err)))
        ELSE Outcome(r.periph, w.bus \o r.bus, Ok(KeyStatus_from_byte(r.buf[1])))

Bbq10Kbd_get_key_status(p, fault) ==
    LET buf0 == <<KEY_STATUS>>
        w == I2cWrite(p, "write", KBD_ADDR, buf0, fault.w)
        buf1 == <<0>>
        r == I2cRead(w.periph, "read", KBD_ADDR, buf1, fault.r)
    IN  IF w.err # 0 THEN Outcome(w.periph, w.bus, Err(Error_I2c))
        ELSE IF r.err # 0 THEN Outcome(r.periph, w.bus \o r.bus, Err(Error_I2c))
        ELSE Outcome(r.periph, w.bus \o r.bus, Ok(KeyStatus_from_byte(r.buf[1])))

---------------------------------------------------------------------------
(* The asynchronous adapter, AsyncBbq10Kbd *)

AsyncBbq10Kbd_get_version(p, fault) ==
    LET t == I2cTransaction(p, KBD_ADDR, <<VERSION>>, <<0>>, fault)
    IN  IF t.err # 0 THEN Outcome(t.periph, t.bus, Err(TransportError(t.err)))
        ELSE Outcome(t.periph, t.bus, Ok(Version_from_byte(t.buf[1])))

AsyncBbq10Kbd_get_fifo_key_raw(p, fault) ==
    LET t == I2cTransaction(p, KBD_ADDR, <<FIFO>>, <<0, 0>>, fault)
    IN  IF t.err # 0 THEN Outcome(t.periph, t.bus, Err(TransportError(t.err)))
        ELSE Outcome(t.periph, t.bus, Ok(KeyRaw_from_bytes(t.buf)))

AsyncBbq10Kbd_get_backlight(p, fault) ==
    LET t == I2cTransaction(p, KBD_ADDR, <<BACKLIGHT>>, <<0>>, fault)
    IN  IF t.err # 0 THEN Outcome(t.periph, t.bus, Err(TransportError(t.err)))
        ELSE Outcome(t.periph, t.bus, Ok(t.buf[1]))

AsyncBbq10Kbd_set_backlight(p, level, fault) ==
    LET buf == <<BitOr(BACKLIGHT, WRITE), level>>
        w == I2cWrite(p, "write", KBD_ADDR, buf, fault.w)
    IN  IF w.err # 0 THEN Outcome(w.periph, w.bus, Err(TransportError(w.err)))
        ELSE Outcome(w.periph, w.bus, Ok(<<>>))

AsyncBbq10Kbd_sw_reset(p, fault) ==
    LET buf == <<RESET>>
        w == I2cWrite(p, "write", KBD_ADDR, buf, fault.w)
    IN  IF w.err # 0 THEN Outcome(w.periph, w.bus, Err(TransportError(w.err)))
        ELSE Outcome(w.periph, w.bus, Ok(<<>>))

\* mutant: the transaction selects the version register
AsyncBbq10Kbd_get_key_status_wrong_register(p, fault) ==
    LET t == I2cTransaction(p, KBD_ADDR, <<VERSION>>, <<0>>, fault)
    IN  IF t.err # 0 THEN Outcome(t.periph, t.bus, Err(TransportError(t.err)))
        ELSE Outcome(t.periph, t.bus, Ok(KeyStatus_from_byte(t.buf[1])))

AsyncBbq10Kbd_get_key_status(p, fault) ==
    LET t == I2cTransaction(p, KBD_ADDR, <<KEY_STATUS>>, <<0>>, fault)
    IN  IF t.err # 0 THEN Outcome(t.periph, t.bus, Err(TransportError(t.err)))
        ELSE Outcome(t.periph, t.bus, Ok(KeyStatus_from_byte(t.buf[1])))

---------------------------------------------------------------------------
(* Calls *)

Adapters == {"blocking", "async"}

Other(a) == IF a = "blocking" THEN "async" ELSE "blocking"

ReadOps == {"get_version", "get_key_status", "get_fifo_key_raw"}

\* The outcome of calling op on adapter a with the peripheral in state p.
Run(a, op, p, level, fault) ==
    CASE op = "get_version" ->
           IF a = "blocking" THEN Bbq10Kbd_get_version(p, fault)
           ELSE AsyncBbq10Kbd_get_version(p, fault)
      [] op = "get_fifo_key_raw" ->
           IF a = "blocking" THEN Bbq10Kbd_get_fifo_key_raw(p, fault)
           ELSE AsyncBbq10Kbd_get_fifo_key_raw(p, fault)
      [] op = "get_backlight" ->
           IF a = "blocking" THEN Bbq10Kbd_get_backlight(p, fault)
           ELSE AsyncBbq10Kbd_get_backlight(p, fault)
      [] op = "set_backlight" ->
           IF a = "blocking" THEN Bbq10Kbd_set_backlight(p, level, fault)
           ELSE AsyncBbq10Kbd_set_backlight(p, level, fault)
      [] op = "sw_reset" ->
           IF a = "blocking" THEN Bbq10Kbd_sw_reset(p, fault)
           ELSE AsyncBbq10Kbd_sw_reset(p, fault)
      [] op = "get_key_status" ->
           IF a = "blocking" THEN Bbq10Kbd_get_key_status(p, fault)
           ELSE AsyncBbq10Kbd_get_key_status(p, fault)

\* lastSet after a call: a failed call forgets it, a successful set_backlight
\* records its level, one of the other reads after that is noted.
NextLastSet(op, level, res) ==
    IF res.tag = "Err" THEN None
    ELSE IF op = "set_backlight" THEN <<"Set", level, FALSE>>
    ELSE IF op \in ReadOps /\ lastSet # None THEN <<"Set", lastSet[2], TRUE>>
    ELSE lastSet

\* The effect of one call, op on adapter a, up to its return.  The twin replays
\* the call on the other adapter against its own copy of the peripheral, with
\* the transport behaving the same way.
Call(a, op, level, fault) ==
    \E out \in {Run(a, op, periph, level, fault)} :
        /\ periph' = out.periph
        /\ bus' = out.bus
        /\ result' = out.result
        /\ lastSet' = NextLastSet(op, level, out.result)
        /\ twin' = Run(Other(a), op, twin.periph, level, fault)

get_version(F) ==
    \E a \in Adapters, fault \in F :
        /\ call' = [op |-> "get_version", adapter |-> a, arg |-> <<>>]
        /\ Call(a, "get_version", 0, fault)

get_fifo_key_raw(F) ==
    \E a \in Adapters, fault \in F :
        /\ call' = [op |-> "get_fifo_key_raw", adapter |-> a, arg |-> <<>>]
        /\ Call(a, "get_fifo_key_raw", 0, fault)

get_backlight(F) ==
    \E a \in Adapters, fault \in F :
        /\ call' = [op |-> "get_backlight", adapter |-> a, arg |-> <<>>]
        /\ Call(a, "get_backlight", 0, fault)

set_backlight(L, F) ==
    \E a \in Adapters, level \in L, fault \in F :
        /\ call' = [op |-> "set_backlight", adapter |-> a, arg |-> <<level>>]
        /\ Call(a, "set_backlight", level, fault)

sw_reset(F) ==
    \E a \in Adapters, fault \in F :
        /\ call' = [op |-> "sw_reset", adapter |-> a, arg |-> <<>>]
        /\ Call(a, "sw_reset", 0, fault)

get_key_status(F) ==
    \E a \in Adapters, fault \in F :
        /\ call' = [op |-> "get_key_status", adapter |-> a, arg |-> <<>>]
        /\ Call(a, "get_key_status", 0, fault)

---------------------------------------------------------------------------
(* Specifications *)

\* Bbq10Kbd::new / AsyncBbq10Kbd::new: the adapter takes the bus handle; nothing
\* has been put on the bus.
InitWith(P) ==
    /\ periph \in P
    /\ bus = <<>>
    /\ result = [tag |-> "None"]
    /\ call = [op |-> "new", adapter |-> "none", arg |-> <<>>]
    /\ lastSet = None
    /\ twin = Outcome(periph, <<>>, [tag |-> "None"])

SamplePeriphs ==
    [sel : {0}, backlight : {0}, version : SampleVersions,
     status : SampleStatus, fifo : SampleFifo]

\* one register over its whole range, the others at rest
DecodePeriphs ==
    [sel : {0}, backlight : {0}, version : Byte, status : {0}, fifo : {<<0, 0>>}]
    \cup [sel : {0}, backlight : {0}, version : {0}, status : Byte, fifo : {<<0, 0>>}]
    \cup [sel : {0}, backlight : {0}, version : {0}, status : {0}, fifo : Byte \X Byte]

BacklightPeriphs ==
    [sel : {0}, backlight : Byte, version : {35}, status : {5}, fifo : {<<2, 65>>}]

\* The adapters against a transport that may fail either phase of any call.
Init == InitWith(SamplePeriphs)

Next ==
    \/ get_version(Faults)
    \/ get_fifo_key_raw(Faults)
    \/ get_backlight(Faults)
    \/ set_backlight(SampleLevels, WriteFaults)
    \/ sw_reset(WriteFaults)
    \/ get_key_status(Faults)

Spec == Init /\ [][Next]_vars

\* The decoders over their whole input range: every register value is read
\* back through the three decoding calls.
InitDecode == InitWith(DecodePeriphs)

NextDecode ==
    \/ get_version(NoFaults)
    \/ get_fifo_key_raw(NoFaults)
    \/ get_key_status(NoFaults)

SpecDecode == InitDecode /\ [][NextDecode]_vars

\* The backlight register over every level, on a transport that does not fail.
InitBacklight == InitWith(BacklightPeriphs)

NextBacklight ==
    \/ get_version(NoFaults)
    \/ get_fifo_key_raw(NoFaults)
    \/ get_backlight(NoFaults)
    \/ set_backlight(Byte, NoFaults)
    \/ sw_reset(NoFaults)
    \/ get_key_status(NoFaults)

SpecBacklight == InitBacklight /\ [][NextBacklight]_vars

---------------------------------------------------------------------------
(* Properties *)

Called == call.op # "new"

Returned(op) == call.op = op /\ result.tag = "Ok"

\* what a bus event puts on the wire: direction, address, bytes, length
Wire(ev) == [kind |-> ev.kind, addr |-> ev.addr, data |-> ev.data, len |-> ev.len]

WireTrace(b) == [i \in 1..Len(b) |-> Wire(b[i])]

\* The decoding of a status byte as the register layout states it: bit 6 is
\* num-lock, bit 5 the caps-lock flag, bits 4..0 the FIFO count.
StatusDecoding(b) ==
    LET bit6 == (b \div 64) % 2
        c == (b \div 32) % 2
        n == b % 32
    IN  [num_lock |-> IF bit6 = 1 THEN "On" ELSE "Off",
         caps_lock |-> IF c = 0 THEN "Off" ELSE IF n = 0 THEN "Unknown" ELSE "On",
         fifo_count |-> IF c = 1 /\ n = 0 THEN <<"EmptyOr32">> ELSE <<"Known", n>>]

\* C1: whatever status byte the peripheral holds, get_key_status returns its
\* decoding by the register layout: num_lock On iff bit 6 is set; caps_lock
\* Unknown with fifo_count EmptyOr32 when bit 5 is set and the count is 0,
\* caps_lock On with Known(n) when bit 5 is set and the count is n > 0,
\* caps_lock Off with Known(n) when bit 5 is clear.
C1_KeyStatusDecoding ==
    Returned("get_key_status") => result.val = StatusDecoding(periph.status)

C1_Witness ==
    /\ Returned("get_key_status")
    /\ periph.status = 96
    /\ result.val = [num_lock |-> "On", caps_lock |-> "Unknown",
                     fifo_count |-> <<"EmptyOr32">>]

Flip6(b) == IF (b \div 64) % 2 = 1 THEN b - 64 ELSE b + 64

\* C2: the status byte with only bit 6 flipped decodes to the same caps_lock and
\* the same fifo_count as the status byte that was read.
C2_Bit6Independence ==
    Returned("get_key_status") =>
        LET flipped == KeyStatus_from_byte(Flip6(periph.status))
        IN  /\ flipped.caps_lock = result.val.caps_lock
            /\ flipped.fifo_count = result.val.fifo_count

C2_Witness ==
    /\ Returned("get_key_status")
    /\ periph.status = 101
    /\ result.val = [num_lock |-> "On", caps_lock |-> "On",
                     fifo_count |-> <<"Known", 5>>]
    /\ KeyStatus_from_byte(37).num_lock = "Off"

\* C3: get_fifo_key_raw returns Pressed(k), Held(k) or Released(k) for the FIFO
\* bytes (1, k), (2, k), (3, k) and Invalid for every other tag, k unchanged.
C3_KeyRawDecoding ==
    Returned("get_fifo_key_raw") =>
        LET t == periph.fifo[1]
            k == periph.fifo[2]
        IN  /\ t = 1 => result.val = <<"Pressed", k>>
            /\ t = 2 => result.val = <<"Held", k>>
            /\ t = 3 => result.val = <<"Released", k>>
            /\ t \notin {1, 2, 3} => result.val = <<"Invalid">>

C3_Witness ==
    /\ Returned("get_fifo_key_raw")
    /\ periph.fifo = <<2, 65>>
    /\ result.val = <<"Held", 65>>

\* C4: get_version returns major = (b >> 4) & 0xF and minor = b & 0xF of the
\* version byte b: both lie in 0..15 and major * 16 + minor = b.
C4_VersionDecoding ==
    Returned("get_version") =>
        LET b == periph.version
        IN  /\ result.val.major = (b \div 16) % 16
            /\ result.val.minor = b % 16
            /\ result.val.major \in 0..15
            /\ result.val.minor \in 0..15
            /\ result.val.major * 16 + result.val.minor = b

C4_Witness ==
    /\ Returned("get_version")
    /\ periph.version = 35
    /\ result.val = [major |-> 2, minor |-> 3]

\* C5: a get_backlight that succeeds returns the level of the last set_backlight
\* that succeeded, whatever was read before or in between.
C5_BacklightRoundTrip ==
    (Returned("get_backlight") /\ lastSet # None) => result.val = lastSet[2]

C5_Witness ==
    /\ Returned("get_backlight")
    /\ lastSet = <<"Set", 200, TRUE>>
    /\ result.val = 200

\* the bus traffic of the register table
Select(reg) == [kind |-> "write", addr |-> 31, data |-> <<reg>>, len |-> 1]

Response(n) == [kind |-> "read", addr |-> 31, data |-> <<>>, len |-> n]

RegisterTable(op, arg) ==
    CASE op = "get_version" -> <<Select(1), Response(1)>>
      [] op = "get_key_status" -> <<Select(4), Response(1)>>
      [] op = "get_backlight" -> <<Select(5), Response(1)>>
      [] op = "get_fifo_key_raw" -> <<Select(9), Response(2)>>
      [] op = "set_backlight" ->
           <<[kind |-> "write", addr |-> 31, data |-> <<133, arg[1]>>, len |-> 2]>>
      [] op = "sw_reset" -> <<Select(8)>>

\* C6: every call puts on the bus, to address 0x1F, the request bytes of the
\* register table and asks for the listed number of response bytes; a call that
\* fails stops somewhere on that list, a call that succeeds went through all of it.
C6_RegisterTable ==
    Called =>
        LET want == RegisterTable(call.op, call.arg)
        IN  /\ Len(bus) \in 1..Len(want)
            /\ \A i \in 1..Len(bus) : Wire(bus[i]) = want[i]
            /\ result.tag = "Ok" => Len(bus) = Len(want)

C6_Witness ==
    /\ Returned("get_fifo_key_raw")
    /\ call.adapter = "blocking"
    /\ WireTrace(bus) = <<Select(9), Response(2)>>

\* C7: a bus operation that fails is the last bus operation of its call, and the
\* call returns an error; no bus operation is issued twice.
C7_FailureAborts ==
    Called =>
        /\ \A i \in 1..Len(bus) :
               bus[i].err # 0 => (i = Len(bus) /\ result.tag = "Err")
        /\ Cardinality({i \in 1..Len(bus) : bus[i].kind = "write"}) <= 1
        /\ Cardinality({i \in 1..Len(bus) : bus[i].kind = "read"}) <= 1

C7_Witness ==
    /\ call.op = "get_version"
    /\ call.adapter = "blocking"
    /\ Len(bus) = 1
    /\ bus[1].kind = "write"
    /\ bus[1].err # 0
    /\ result = Err(Error_I2c)

\* C8 as stated: every error returned, by either adapter, is the one opaque value.
C8_AlwaysOpaque ==
    result.tag = "Err" => result.err = Error_I2c

\* C8 as amended: the blocking adapter returns the one opaque value Error::I2c for
\* every failure; the asynchronous adapter returns the error the transport raised.
C8_OpaqueOnlyWhenBlocking ==
    (Called /\ result.tag = "Err") =>
        /\ call.adapter = "blocking" => result.err = Error_I2c
        /\ call.adapter = "async" => result.err = TransportError(bus[Len(bus)].err)

C8_Witness ==
    /\ call.adapter = "async"
    /\ call.op = "get_version"
    /\ result = Err(TransportError(2))
    /\ twin.result = Err(Error_I2c)

C10_ReadFollowsItsSelect ==
    Called =>
        \A i \in 1..Len(bus) :
            bus[i].kind = "read" =>
                /\ i > 1
                /\ bus[i - 1].kind = "write"
                /\ bus[i - 1].err = 0
                /\ bus[i - 1].addr = bus[i].addr
                /\ bus[i - 1].len = 1
                /\ bus[i - 1].data[1] < 128

C10_Witness ==
    /\ call.op = "get_backlight"
    /\ call.adapter = "blocking"
    /\ Len(bus) = 2
    /\ bus[1].err = 0
    /\ bus[2].kind = "read"
    /\ result.tag = "Ok"

====
